---- MODULE Spec2Model ----
(***************************************************************************)
(* Model of cjellick/plugin-manager:                                       *)
(*   reaper/watcher.go  - the orphan reconciler (onChange/removeContainer) *)
(*                        and the duplicate-service guard (watchMetadata/  *)
(*                        CheckMetadata)                                   *)
(*   events/entry.go    - the event bootstrap (DockerEventsProcessor.      *)
(*                        Process)                                         *)
(* External calls (metadata client, docker client) may fail: every call    *)
(* is a step that nondeterministically succeeds or returns an error.       *)
(***************************************************************************)
EXTENDS Integers, Sequences, FiniteSets, TLC

\* ------------------------------------------------------------------------
\* Program constants (reaper/watcher.go:14-21, 137)
\* ------------------------------------------------------------------------
uuidLabel == "io.rancher.container.uuid"
serviceNameLabel == "io.rancher.stack_service.name"
metadataService == "network-services/metadata"
dnsService == "network-services/metadata/dns"
AgentName == "/rancher-agent"

\* ------------------------------------------------------------------------
\* Bounds of the model
\* ------------------------------------------------------------------------
\* longest list GetContainers returns
MaxContainers == 2
\* number of onChange invocations that may be in flight together
NumPasses == 2
\* longest list ContainerList returns
MaxRuntime == 4
\* ticks of watchMetadata's loop that are followed, per specification
MaxDedupTicks == 3
MaxBackoffTicks == 17
\* ticks of watchMetadata's loop followed beside the reconciler
MaxWatchTicks == 1
\* containers the daemon holds when Process starts
MaxPopulation == 2
\* events the daemon emits while Process is followed
MaxRealEvents == 2
\* capacity of the router's listener channel
ListenerCap == 2

\* ---- state of the orphan reconciler ----
VARIABLES
  metaContainers, \* what the metadata service holds (GetContainers' answer)
  runtime,        \* ids of the containers the docker daemon holds
  opc,            \* per pass: where onChange stands
  ohost,          \* per pass: the host GetSelfHost returned
  osnap,          \* per pass: the list GetContainers returned
  oidx,           \* per pass: index of the range loop
  oerr,           \* per pass: onChange returned an error
  ocalls          \* per pass: the docker calls this pass has issued so far

ovars == <<metaContainers, runtime, opc, ohost, osnap, oidx, oerr, ocalls>>

\* ---- state of the duplicate-service guard ----
VARIABLES
  containers,  \* the docker daemon's containers, newest first
  dpc,         \* where watchMetadata's loop stands
  dlist,       \* the list ContainerList returned to the current pass
  toStop,      \* CheckMetadata's toStop
  dnext,       \* index of the range loop over toStop
  derr,        \* the current CheckMetadata pass returned an error
  dcalls,      \* the ContainerStop calls the current pass has issued
  attempt,     \* the Backoff's attempt counter
  sleeps       \* the durations watchMetadata has slept, in milliseconds

dvars == <<containers, dpc, dlist, toStop, dnext, derr, dcalls, attempt, sleeps>>

\* ---- state of the event bootstrap ----
VARIABLES
  population,    \* the docker daemon's containers (any state), newest first
  epc,           \* where Process stands
  eerr,          \* Process returned an error
  routerStarted, \* router.Start() has been called: the router listens
  elisting,      \* the list ListContainers returned
  ei,            \* index of the replay loop
  listener,      \* the router's listener channel: events not yet taken
  processed,     \* the events the router has taken and dispatched, in order
  nreal          \* number of events the daemon has emitted

evars == <<population, epc, eerr, routerStarted, elisting, ei, listener, processed, nreal>>

vars == <<ovars, dvars, evars>>

\* Go's map lookup: the zero value "" when the key is absent
Get(labels, key) == IF key \in DOMAIN labels THEN labels[key] ELSE ""

\* the sequences over S of length at most n
SeqUpTo(S, n) == UNION {[1..k -> S] : k \in 0..n}

\* ========================================================================
\* OrphanReconciler: watcher.onChange / watcher.removeContainer
\* ========================================================================

Passes == 1..NumPasses

\* the self host and another host of the cluster
SelfHost == [UUID |-> "h1"]
HostUUIDs == {"h1", "h2"}

\* runtime containers by id, and the name ContainerInspect reports for each
ExternalIds == {"d1", "d2"}
RuntimeName(id) == IF id = "d1" THEN AgentName ELSE "/web-1"

\* a metadata container's Labels: the uuid label absent, equal to UUID or stale
LabelMaps == UNION {[D -> {"a1", "a2"}] : D \in SUBSET {uuidLabel}}
MetadataContainer ==
  [UUID : {"a1"}, ExternalId : ExternalIds, HostUUID : HostUUIDs, Labels : LabelMaps]

\* mutants of IsOrphan: the comparison inverted; a missing label taken as stale
IsOrphanInverted(container, host) ==
  /\ container.HostUUID = host.UUID
  /\ uuidLabel \in DOMAIN container.Labels
  /\ container.UUID = container.Labels[uuidLabel]

IsOrphanAbsentToo(container, host) ==
  /\ container.HostUUID = host.UUID
  /\ container.UUID # Get(container.Labels, uuidLabel)

\* mutant of IsOrphan: the host filter is left out
IsOrphanAnyHost(container, host) ==
  /\ uuidLabel \in DOMAIN container.Labels
  /\ container.UUID # container.Labels[uuidLabel]

\* the test of the range loop's body: the container goes to removeContainer
IsOrphan(container, host) ==
  /\ container.HostUUID = host.UUID
  /\ uuidLabel \in DOMAIN container.Labels
  /\ container.UUID # container.Labels[uuidLabel]

\* mutant of IsReservedAgent: the name compared without its leading slash
IsReservedAgentNoSlash(name) == name = "rancher-agent"

\* removeContainer's guard for the agent's own container
IsReservedAgent(name) == name = AgentName

\* the id removeContainer hands to ContainerInspect and ContainerRemove
RemoveTarget(container) == container.ExternalId

\* first index >= i of an element the loop hands to removeContainer, or Len+1
RECURSIVE NextOrphan(_, _, _)
NextOrphan(list, host, i) ==
  IF i > Len(list) THEN i
  ELSE IF IsOrphan(list[i], host) THEN i
  ELSE NextOrphan(list, host, i + 1)

\* no pass is running yet; every runtime container exists
OrphanIdle ==
  /\ runtime = ExternalIds
  /\ opc = [p \in Passes |-> "idle"]
  /\ ohost = [p \in Passes |-> [UUID |-> ""]]
  /\ osnap = [p \in Passes |-> <<>>]
  /\ oidx = [p \in Passes |-> 0]
  /\ oerr = [p \in Passes |-> FALSE]
  /\ ocalls = [p \in Passes |-> <<>>]

InitOrphan ==
  /\ metaContainers \in SeqUpTo(MetadataContainer, MaxContainers)
  /\ OrphanIdle

\* the reconciler is not part of the run
OrphanOff ==
  /\ metaContainers = <<>>
  /\ OrphanIdle

\* mutant of Return: the error is dropped, onChange returns nil
ReturnNil(p, err) ==
  /\ opc' = [opc EXCEPT ![p] = "returned"]
  /\ oerr' = [oerr EXCEPT ![p] = FALSE]

\* a pass ends: onChange returns (err or nil) to onChangeNoError
Return(p, err) ==
  /\ opc' = [opc EXCEPT ![p] = "returned"]
  /\ oerr' = [oerr EXCEPT ![p] = err]

\* a change notification invokes onChange, which first calls GetSelfHost
GetSelfHost(p) ==
  /\ opc[p] \in {"idle", "returned"}
  /\ ocalls' = [ocalls EXCEPT ![p] = <<>>]
  /\ osnap' = [osnap EXCEPT ![p] = <<>>]
  /\ oidx' = [oidx EXCEPT ![p] = 0]
  /\ \/ /\ ohost' = [ohost EXCEPT ![p] = SelfHost]
        /\ opc' = [opc EXCEPT ![p] = "GetContainers"]
        /\ oerr' = [oerr EXCEPT ![p] = FALSE]
     \/ /\ ohost' = [ohost EXCEPT ![p] = [UUID |-> ""]]
        /\ Return(p, TRUE)
  /\ UNCHANGED <<metaContainers, runtime, dvars, evars>>

GetContainers(p) ==
  /\ opc[p] = "GetContainers"
  /\ \/ /\ osnap' = [osnap EXCEPT ![p] = metaContainers]
        /\ oidx' = [oidx EXCEPT ![p] = 1]
        /\ opc' = [opc EXCEPT ![p] = "loop"]
        /\ UNCHANGED oerr
     \/ /\ Return(p, TRUE)
        /\ UNCHANGED <<osnap, oidx>>
  /\ UNCHANGED <<metaContainers, runtime, ohost, ocalls, dvars, evars>>

\* the range loop up to its next docker call: the elements that are no orphans
\* are passed over, the next orphan is inspected (removeContainer's first half)
Inspect(p) ==
  /\ opc[p] = "loop"
  /\ LET j == NextOrphan(osnap[p], ohost[p], oidx[p]) IN
     IF j > Len(osnap[p])
     THEN /\ Return(p, FALSE)
          /\ oidx' = [oidx EXCEPT ![p] = j]
          /\ UNCHANGED ocalls
     ELSE LET id == RemoveTarget(osnap[p][j]) IN
          \E ok \in (IF id \in runtime THEN BOOLEAN ELSE {FALSE}) :
            LET name == IF ok THEN RuntimeName(id) ELSE "" IN
            /\ ocalls' = [ocalls EXCEPT ![p] = Append(@,
                 [op |-> "inspect", idx |-> j, id |-> id, ok |-> ok, name |-> name])]
            /\ IF ok /\ ~IsReservedAgent(name)
               THEN /\ oidx' = [oidx EXCEPT ![p] = j]
                    /\ opc' = [opc EXCEPT ![p] = "remove"]
               ELSE /\ oidx' = [oidx EXCEPT ![p] = j + 1]
                    /\ UNCHANGED opc
            /\ UNCHANGED oerr
  /\ UNCHANGED <<metaContainers, runtime, ohost, osnap, dvars, evars>>

\* mutant of Remove: the loop position is one variable shared by all passes
RemoveSharedCursor(p) ==
  /\ opc[p] = "remove"
  /\ LET j == oidx[p]
         id == RemoveTarget(osnap[p][j]) IN
     \E ok \in (IF id \in runtime THEN BOOLEAN ELSE {FALSE}) :
       /\ ocalls' = [ocalls EXCEPT ![p] = Append(@,
            [op |-> "remove", idx |-> j, id |-> id, ok |-> ok, name |-> ""])]
       /\ runtime' = IF ok THEN runtime \ {id} ELSE runtime
       /\ oidx' = [q \in DOMAIN oidx |-> j + 1]
       /\ opc' = [opc EXCEPT ![p] = "loop"]
  /\ UNCHANGED <<metaContainers, ohost, osnap, oerr, dvars, evars>>

\* removeContainer's second half: ContainerRemove with Force
Remove(p) ==
  /\ opc[p] = "remove"
  /\ LET j == oidx[p]
         id == RemoveTarget(osnap[p][j]) IN
     \E ok \in (IF id \in runtime THEN BOOLEAN ELSE {FALSE}) :
       /\ ocalls' = [ocalls EXCEPT ![p] = Append(@,
            [op |-> "remove", idx |-> j, id |-> id, ok |-> ok, name |-> ""])]
       /\ runtime' = IF ok THEN runtime \ {id} ELSE runtime
       /\ oidx' = [oidx EXCEPT ![p] = j + 1]
       /\ opc' = [opc EXCEPT ![p] = "loop"]
  /\ UNCHANGED <<metaContainers, ohost, osnap, oerr, dvars, evars>>

\* ========================================================================
\* DuplicateServiceGuard: watchMetadata / CheckMetadata
\* ========================================================================

\* types.Container as CheckMetadata reads it. A listed container either
\* matches a well-known service or misses it by exactly one of the three
\* attributes tested (State, uuid label, service name label).
DockerLabelMaps ==
  UNION {[D -> {"", "u1", metadataService, dnsService, "web"}] :
           D \in SUBSET {uuidLabel, serviceNameLabel}}
WellFormedLabels(l) ==
  /\ uuidLabel \in DOMAIN l => l[uuidLabel] \in {"", "u1"}
  /\ serviceNameLabel \in DOMAIN l =>
        l[serviceNameLabel] \in {metadataService, dnsService, "web"}
Misses(state, l) ==
  (IF state # "running" THEN 1 ELSE 0)
  + (IF Get(l, uuidLabel) = "" THEN 1 ELSE 0)
  + (IF Get(l, serviceNameLabel) \notin {metadataService, dnsService} THEN 1 ELSE 0)
ContainerKinds ==
  {k \in [State : {"running", "exited"}, Labels : DockerLabelMaps] :
     WellFormedLabels(k.Labels) /\ Misses(k.State, k.Labels) <= 1}

\* the daemon's ids: a container's id is its age rank, 1 the oldest, so a
\* newest-first list carries the ids n, n-1, ..., 1
WithIDs(kinds) ==
  [i \in 1..Len(kinds) |->
     [ID |-> Len(kinds) - i + 1, State |-> kinds[i].State, Labels |-> kinds[i].Labels]]

\* mutant of IsDuplicateCandidate: the State test is left out
IsDuplicateCandidateAnyState(container, service) ==
  /\ Get(container.Labels, uuidLabel) # ""
  /\ Get(container.Labels, serviceNameLabel) = service

\* the test of CheckMetadata's first loop, for one of the two services
IsDuplicateCandidate(container, service) ==
  /\ container.State = "running"
  /\ Get(container.Labels, uuidLabel) # ""
  /\ Get(container.Labels, serviceNameLabel) = service

\* metadataIds / dnsIds: the ids of the matching elements, in list order
RECURSIVE MatchingIds(_, _)
MatchingIds(list, service) ==
  IF list = <<>> THEN <<>>
  ELSE (IF IsDuplicateCandidate(Head(list), service) THEN <<Head(list).ID>> ELSE <<>>)
       \o MatchingIds(Tail(list), service)

\* mutant of PickToStop: the first (newest) match is picked
PickFirstToStop(ids) == IF Len(ids) > 1 THEN <<ids[1]>> ELSE <<>>

\* mutant of PickToStop: every match but the newest is picked
PickAllButNewest(ids) == IF Len(ids) > 1 THEN Tail(ids) ELSE <<>>

\* mutant of PickToStop: two matches are still taken for no duplicate
PickToStopOverTwo(ids) == IF Len(ids) > 2 THEN <<ids[Len(ids)]>> ELSE <<>>

\* the element CheckMetadata picks out of more than one match: the last
PickToStop(ids) == IF Len(ids) > 1 THEN <<ids[Len(ids)]>> ELSE <<>>

ComputeToStop(list) ==
  PickToStop(MatchingIds(list, metadataService)) \o PickToStop(MatchingIds(list, dnsService))

\* ---- jpillora/backoff as configured by watchMetadata -------------------
\* Durations are in milliseconds: the value below is the code's nanosecond
\* duration divided by 10^6 and truncated.
BackoffMin == 1000
BackoffMax == 300000
\* Factor 1.5 as numerator and denominator
Factor == <<3, 2>>

\* one multiplication by Factor, the fraction <<num, den>> kept reduced. Once
\* the value exceeds Max the multiplication stops: a larger attempt only
\* yields a larger value, which ForAttempt clamps to Max all the same.
DurfStep(p) ==
  IF p[1] \div p[2] > BackoffMax THEN p
  ELSE LET num == p[1] * Factor[1]
           den == p[2] * Factor[2] IN
       IF num % 2 = 0 /\ den % 2 = 0 THEN <<num \div 2, den \div 2>>
       ELSE <<num, den>>

\* Min * Factor^n as an exact fraction, one step after the other
RECURSIVE Durf(_)
Durf(n) ==
  IF n = 0 THEN <<BackoffMin, 1>>
  ELSE CHOOSE r \in {DurfStep(p) : p \in {Durf(n - 1)}} : TRUE

\* mutant of ForAttempt: the upper clamp is missing
ForAttemptNoMax(n) ==
  LET dur == Durf(n)[1] \div Durf(n)[2] IN
  IF dur < BackoffMin THEN BackoffMin ELSE dur

\* Backoff.ForAttempt: truncate, then keep within [Min, Max]
ForAttempt(n) ==
  LET dur == Durf(n)[1] \div Durf(n)[2] IN
  IF dur < BackoffMin THEN BackoffMin
  ELSE IF dur > BackoffMax THEN BackoffMax
  ELSE dur

\* watchMetadata is about to call CheckMetadata for the first time
DedupStart(pc) ==
  /\ dpc = pc
  /\ dlist = <<>>
  /\ toStop = <<>>
  /\ dnext = 1
  /\ derr = FALSE
  /\ dcalls = <<>>
  /\ attempt = 0
  /\ sleeps = <<>>

InitDedup ==
  /\ containers \in {WithIDs(k) : k \in SeqUpTo(ContainerKinds, MaxRuntime)}
  /\ DedupStart("check")

\* the guard is not part of the run
DedupOff ==
  /\ containers = <<>>
  /\ DedupStart("off")

\* mutant of ContainerList: a failed listing ends the loop
ContainerListFatal ==
  /\ dpc = "check"
  /\ dcalls' = <<>>
  /\ dnext' = 1
  /\ \/ /\ dlist' = containers
        /\ toStop' = ComputeToStop(containers)
        /\ derr' = FALSE
        /\ dpc' = IF ComputeToStop(containers) = <<>> THEN "sleep" ELSE "stop"
     \/ /\ dlist' = <<>>
        /\ toStop' = <<>>
        /\ derr' = TRUE
        /\ dpc' = "off"
  /\ UNCHANGED <<containers, attempt, sleeps, ovars, evars>>

\* CheckMetadata up to its first ContainerStop: the listing and the choice
ContainerList ==
  /\ dpc = "check"
  /\ dcalls' = <<>>
  /\ dnext' = 1
  /\ \/ /\ dlist' = containers
        /\ toStop' = ComputeToStop(containers)
        /\ derr' = FALSE
        /\ dpc' = IF ComputeToStop(containers) = <<>> THEN "sleep" ELSE "stop"
     \/ /\ dlist' = <<>>
        /\ toStop' = <<>>
        /\ derr' = TRUE
        /\ dpc' = "sleep"
  /\ UNCHANGED <<containers, attempt, sleeps, ovars, evars>>

\* the daemon's containers after a successful stop of id
Stopped(list, id) ==
  [i \in 1..Len(list) |->
     IF list[i].ID = id THEN [list[i] EXCEPT !.State = "exited"] ELSE list[i]]

\* mutant of ContainerStop: a failed stop ends the loop
ContainerStopAbortOnError ==
  /\ dpc = "stop"
  /\ \E ok \in BOOLEAN :
       /\ dcalls' = Append(dcalls, [id |-> toStop[dnext], ok |-> ok])
       /\ containers' = IF ok THEN Stopped(containers, toStop[dnext]) ELSE containers
       /\ dpc' = IF dnext = Len(toStop) \/ ~ok THEN "sleep" ELSE "stop"
  /\ dnext' = dnext + 1
  /\ UNCHANGED <<dlist, toStop, derr, attempt, sleeps, ovars, evars>>

\* one iteration of the loop over toStop: ContainerStop with a zero timeout
ContainerStop ==
  /\ dpc = "stop"
  /\ \E ok \in BOOLEAN :
       /\ dcalls' = Append(dcalls, [id |-> toStop[dnext], ok |-> ok])
       /\ containers' = IF ok THEN Stopped(containers, toStop[dnext]) ELSE containers
  /\ dnext' = dnext + 1
  /\ dpc' = IF dnext = Len(toStop) THEN "sleep" ELSE "stop"
  /\ UNCHANGED <<dlist, toStop, derr, attempt, sleeps, ovars, evars>>

\* mutant of Sleep: the backoff is reset after a pass that returned nil
SleepResetOnSuccess(maxTicks) ==
  /\ dpc = "sleep"
  /\ attempt < maxTicks
  /\ sleeps' = Append(sleeps, ForAttempt(IF derr THEN attempt ELSE 0))
  /\ attempt' = IF derr THEN attempt + 1 ELSE 1
  /\ dpc' = "check"
  /\ UNCHANGED <<containers, dlist, toStop, dnext, derr, dcalls, ovars, evars>>

\* time.Sleep(b.Duration()): Duration is ForAttempt of the counter, which it
\* then increments. The loop is followed for maxTicks sleeps.
Sleep(maxTicks) ==
  /\ dpc = "sleep"
  /\ attempt < maxTicks
  /\ sleeps' = Append(sleeps, ForAttempt(attempt))
  /\ attempt' = attempt + 1
  /\ dpc' = "check"
  /\ UNCHANGED <<containers, dlist, toStop, dnext, derr, dcalls, ovars, evars>>

\* time.Sleep(b.Duration()) once the last interval was Max: the product only
\* grows with the counter, so every later Duration() is Max as well, and the
\* counter and the record of intervals are followed no further
SleepAtMax(maxTicks) ==
  /\ dpc = "sleep"
  /\ attempt >= maxTicks
  /\ sleeps # <<>> /\ sleeps[Len(sleeps)] = BackoffMax
  /\ dpc' = "check"
  /\ UNCHANGED <<containers, dlist, toStop, dnext, derr, dcalls, attempt, sleeps,
                 ovars, evars>>

\* ========================================================================
\* EventBootstrap: DockerEventsProcessor.Process
\* ========================================================================
simulatedEvent == "-simulated-"

\* the daemon's containers carry their age rank as id, 1 the oldest
PopulationOf(states) ==
  [i \in 1..Len(states) |-> [ID |-> Len(states) - i + 1, State |-> states[i]]]

\* mutant of SimulatedEventFor: the marker is left out
SimulatedEventUnmarked(c) == [ID |-> c.ID, Status |-> "start", From |-> ""]

\* the event the replay loop builds for a listed container
SimulatedEventFor(c) == [ID |-> c.ID, Status |-> "start", From |-> simulatedEvent]

\* mutant of ReplayList: the loop starts at the second element
ReplayListFromSecond(listing) == IF listing = <<>> THEN <<>> ELSE Tail(listing)

\* the list the replay loop ranges over
ReplayList(listing) == listing

\* mutant of StepAfter: the listing and the replay precede router.Start()
StepAfterListFirst(step) ==
  CASE step = "NewDockerClient" -> "NewEventRouter"
    [] step = "NewEventRouter" -> "ListContainers"
    [] step = "ListContainers" -> "replay"
    [] step = "replay" -> "Start"
    [] step = "Start" -> "done"

\* the order of Process's steps
StepAfter(step) ==
  CASE step = "NewDockerClient" -> "NewEventRouter"
    [] step = "NewEventRouter" -> "Start"
    [] step = "Start" -> "ListContainers"
    [] step = "ListContainers" -> "replay"
    [] step = "replay" -> "done"

EventsStart(pc) ==
  /\ epc = pc
  /\ eerr = FALSE
  /\ routerStarted = FALSE
  /\ elisting = <<>>
  /\ ei = 1
  /\ listener = <<>>
  /\ processed = <<>>
  /\ nreal = 0

InitEvents ==
  /\ population \in {PopulationOf(s) : s \in SeqUpTo({"running", "exited"}, MaxPopulation)}
  /\ EventsStart("NewDockerClient")

\* the bootstrap is not part of the run
EventsOff ==
  /\ population = <<>>
  /\ EventsStart("off")

\* mutant of ReturnErr: Process returns nil where it had an error
ReturnErrDropped ==
  /\ epc' = "done"
  /\ eerr' = FALSE

\* Process returns err
ReturnErr ==
  /\ epc' = "done"
  /\ eerr' = TRUE

NewDockerClient ==
  /\ epc = "NewDockerClient"
  /\ \/ epc' = StepAfter("NewDockerClient") /\ UNCHANGED eerr
     \/ ReturnErr
  /\ UNCHANGED <<population, routerStarted, elisting, ei, listener, processed, nreal,
                 ovars, dvars>>

\* builds the routing table's router together with its listener channel
NewEventRouter ==
  /\ epc = "NewEventRouter"
  /\ \/ epc' = StepAfter("NewEventRouter") /\ UNCHANGED eerr
     \/ ReturnErr
  /\ UNCHANGED <<population, routerStarted, elisting, ei, listener, processed, nreal,
                 ovars, dvars>>

\* router.Start()
RouterStart ==
  /\ epc = "Start"
  /\ routerStarted' = TRUE
  /\ epc' = StepAfter("Start")
  /\ UNCHANGED <<population, eerr, elisting, ei, listener, processed, nreal, ovars, dvars>>

\* mutant of ListContainers: the All option is not set, the listing holds
\* the running containers only
ListContainersRunningOnly ==
  /\ epc = "ListContainers"
  /\ \/ /\ elisting' = SelectSeq(population, LAMBDA c : c.State = "running")
        /\ epc' = StepAfter("ListContainers")
        /\ UNCHANGED eerr
     \/ /\ ReturnErr
        /\ UNCHANGED elisting
  /\ UNCHANGED <<population, routerStarted, ei, listener, processed, nreal, ovars, dvars>>

\* dockerClient.ListContainers with All
ListContainers ==
  /\ epc = "ListContainers"
  /\ \/ /\ elisting' = population
        /\ epc' = StepAfter("ListContainers")
        /\ UNCHANGED eerr
     \/ /\ ReturnErr
        /\ UNCHANGED elisting
  /\ UNCHANGED <<population, routerStarted, ei, listener, processed, nreal, ovars, dvars>>

\* one iteration of the replay loop: a send on the listener channel, which
\* blocks while the channel is full
SendSimulated ==
  /\ epc = "replay"
  /\ ei <= Len(ReplayList(elisting))
  /\ Len(listener) < ListenerCap
  /\ listener' = Append(listener, SimulatedEventFor(ReplayList(elisting)[ei]))
  /\ ei' = ei + 1
  /\ UNCHANGED <<population, epc, eerr, routerStarted, elisting, processed, nreal,
                 ovars, dvars>>

\* mutant of EndReplay: the loop's end test is off by one and never passes
EndReplayOffByOne ==
  /\ epc = "replay"
  /\ ei > Len(ReplayList(elisting)) + 1
  /\ epc' = StepAfter("replay")
  /\ UNCHANGED <<population, eerr, routerStarted, elisting, ei, listener, processed,
                 nreal, ovars, dvars>>

\* the replay loop is over
EndReplay ==
  /\ epc = "replay"
  /\ ei > Len(ReplayList(elisting))
  /\ epc' = StepAfter("replay")
  /\ UNCHANGED <<population, eerr, routerStarted, elisting, ei, listener, processed,
                 nreal, ovars, dvars>>

\* ---- the router and the daemon, as the specification describes them ----
\* The daemon emits a lifecycle event: a new container starts, a running one
\* dies, an exited one starts again. A started router is subscribed to the
\* stream and receives the event on its listener channel; before that the
\* event reaches nobody.
Deliver(event) ==
  IF routerStarted
  THEN Len(listener) < ListenerCap /\ listener' = Append(listener, event)
  ELSE UNCHANGED listener

RealEvent ==
  /\ nreal < MaxRealEvents
  /\ nreal' = nreal + 1
  /\ \/ LET id == Len(population) + 1 IN
        /\ population' = <<[ID |-> id, State |-> "running"]>> \o population
        /\ Deliver([ID |-> id, Status |-> "start", From |-> "image"])
     \/ \E i \in 1..Len(population) :
          LET c == population[i] IN
          /\ population' =
               [population EXCEPT ![i].State = IF c.State = "running" THEN "exited" ELSE "running"]
          /\ Deliver([ID |-> c.ID,
                      Status |-> IF c.State = "running" THEN "die" ELSE "start",
                      From |-> "image"])
  /\ UNCHANGED <<epc, eerr, routerStarted, elisting, ei, processed, ovars, dvars>>

\* a worker of the started router takes the next event and dispatches it
RouterWorker ==
  /\ routerStarted
  /\ listener # <<>>
  /\ processed' = Append(processed, Head(listener))
  /\ listener' = Tail(listener)
  /\ UNCHANGED <<population, epc, eerr, routerStarted, elisting, ei, nreal, ovars, dvars>>

\* every event that has reached the router's ingestion point, in order
Ingested == processed \o listener

\* ========================================================================
\* Specifications
\* ========================================================================
\* the orphan reconciler alone, its passes overlapping
NextOrphanPasses ==
  \E p \in Passes : GetSelfHost(p) \/ GetContainers(p) \/ Inspect(p) \/ Remove(p)

InitOrphanPasses == InitOrphan /\ DedupOff /\ EventsOff

SpecOrphan == InitOrphanPasses /\ [][NextOrphanPasses]_vars

\* ---- overlapping passes of the reconciler -------------------------------
\* the number handed to OnChange with the handler, read as the greatest
\* number of passes in flight at once
OnChangeWidth == 5
Workers == 1..OnChangeWidth

\* an entry of this host with a stale uuid label
StaleHere(id) ==
  [UUID |-> "a1", ExternalId |-> id, HostUUID |-> "h1",
   Labels |-> [l \in {uuidLabel} |-> "a2"]]
\* the metadata the overlapping passes see: any single container
OverlapMetadata == {<<c>> : c \in MetadataContainer}

InitOverlap ==
  /\ metaContainers \in OverlapMetadata
  /\ runtime = ExternalIds
  /\ opc = [p \in Workers |-> "idle"]
  /\ ohost = [p \in Workers |-> [UUID |-> ""]]
  /\ osnap = [p \in Workers |-> <<>>]
  /\ oidx = [p \in Workers |-> 0]
  /\ oerr = [p \in Workers |-> FALSE]
  /\ ocalls = [p \in Workers |-> <<>>]
  /\ DedupOff /\ EventsOff

NextOverlap ==
  \E p \in Workers : GetSelfHost(p) \/ GetContainers(p) \/ Inspect(p) \/ Remove(p)

SpecOverlap == InitOverlap /\ [][NextOverlap]_vars

\* the duplicate-service guard alone, over every listing within the bounds
NextDedup == ContainerList \/ ContainerStop \/ Sleep(MaxDedupTicks)

InitDedupLoop == InitDedup /\ OrphanOff /\ EventsOff

SpecDedup == InitDedupLoop /\ [][NextDedup]_vars

\* the guard's loop followed until its interval has settled, over the listing
\* of Scenario C: three running instances of the metadata service
RunningInstance(service) ==
  [State |-> "running", Labels |-> (uuidLabel :> "u1") @@ (serviceNameLabel :> service)]

ScenarioC ==
  WithIDs(<<RunningInstance(metadataService), RunningInstance(metadataService),
            RunningInstance(metadataService)>>)

InitBackoff == containers = ScenarioC /\ DedupStart("check") /\ OrphanOff /\ EventsOff

NextBackoff == ContainerList \/ ContainerStop \/ Sleep(MaxBackoffTicks)

SpecBackoff == InitBackoff /\ [][NextBackoff]_vars

\* the guard's loop without end, over listings of running instances of the
\* two services. The loop is one goroutine that nothing holds up: it takes
\* its next step whenever it has one.
InitForever ==
  /\ containers \in
       {WithIDs(k) : k \in SeqUpTo({RunningInstance(metadataService),
                                    RunningInstance(dnsService)}, MaxRuntime)}
  /\ DedupStart("check") /\ OrphanOff /\ EventsOff

NextForever ==
  ContainerList \/ ContainerStop \/ Sleep(MaxBackoffTicks) \/ SleepAtMax(MaxBackoffTicks)

SpecForever == InitForever /\ [][NextForever]_vars /\ WF_vars(NextForever)

\* Watch: the reconciler and the guard's loop side by side, over the metadata
\* of this host's containers and listings with duplicated services. The
\* notifications are handled one after the other here (the overlap of passes
\* is SpecOrphan's subject).
BothDuplicated ==
  WithIDs(<<RunningInstance(metadataService), RunningInstance(dnsService),
            RunningInstance(metadataService), RunningInstance(dnsService)>>)

InitWatch ==
  /\ metaContainers \in
       SeqUpTo({c \in MetadataContainer : c.HostUUID = SelfHost.UUID}, MaxContainers)
  /\ OrphanIdle
  /\ containers \in {ScenarioC, BothDuplicated}
  /\ DedupStart("check")
  /\ EventsOff

Notified == CHOOSE p \in Passes : TRUE

NextWatch ==
  \/ GetSelfHost(Notified) \/ GetContainers(Notified) \/ Inspect(Notified) \/ Remove(Notified)
  \/ ContainerList \/ ContainerStop \/ Sleep(MaxWatchTicks)

SpecWatch == InitWatch /\ [][NextWatch]_vars

\* the event bootstrap with the router and the daemon around it
NextEvents ==
  \/ NewDockerClient \/ NewEventRouter \/ RouterStart \/ ListContainers
  \/ SendSimulated \/ EndReplay
  \/ RealEvent \/ RouterWorker

InitBootstrap == InitEvents /\ OrphanOff /\ DedupOff

SpecEvents == InitBootstrap /\ [][NextEvents]_vars

\* the bootstrap with its scheduling: the goroutine running Process is never
\* held up for ever while it can step, a send on the listener channel that
\* can complete again and again does complete, and the started router's
\* workers keep receiving from the channel
ProcessStep ==
  NewDockerClient \/ NewEventRouter \/ RouterStart \/ ListContainers \/ EndReplay

SpecEventsFair ==
  /\ InitBootstrap /\ [][NextEvents]_vars
  /\ WF_vars(ProcessStep) /\ SF_vars(SendSimulated) /\ WF_vars(RouterWorker)

\* ========================================================================
\* Claims about the orphan reconciler (SpecOrphan)
\* ========================================================================
\* pass p has returned nil: both fetches succeeded and the loop ran to its end
PassDone(p) == opc[p] = "returned" /\ ~oerr[p]

\* the calls of kind op that pass p issued for element j of its list
CallsFor(p, op, j) == SelectSeq(ocalls[p], LAMBDA c : c.op = op /\ c.idx = j)

AssignedHere(c) == c.HostUUID = "h1"
LabelAbsent(c) == uuidLabel \notin DOMAIN c.Labels
LabelStale(c) == ~LabelAbsent(c) /\ c.Labels[uuidLabel] # c.UUID

\* element j of pass p's list was inspected once, by its ExternalId, and, when
\* the inspect answered with a name other than the agent's, removed once
InspectedAndRemoved(p, j) ==
  LET c == osnap[p][j]
      ins == CallsFor(p, "inspect", j)
      rem == CallsFor(p, "remove", j) IN
  /\ Len(ins) = 1
  /\ ins[1].id = c.ExternalId
  /\ (ins[1].ok /\ ins[1].name # "/rancher-agent") =>
       (Len(rem) = 1 /\ rem[1].id = c.ExternalId)

\* C1: in a pass whose two fetches succeeded, every container of this host
\* whose uuid label differs from its UUID is inspected once and, when the
\* inspected name is not the agent's, gets exactly one removal call, which
\* targets its ExternalId.
C1_OneRemovalPerOrphan ==
  \A p \in Passes : PassDone(p) =>
    \A j \in 1..Len(osnap[p]) :
      (AssignedHere(osnap[p][j]) /\ LabelStale(osnap[p][j])) => InspectedAndRemoved(p, j)

\* Scenario A: d2 ("/web-1") carries a stale label and the pass has removed it
C1_Witness ==
  \E p \in Passes : PassDone(p) /\ \E j \in 1..Len(osnap[p]) :
    /\ AssignedHere(osnap[p][j]) /\ LabelStale(osnap[p][j])
    /\ osnap[p][j].ExternalId = "d2"
    /\ \E k \in 1..Len(ocalls[p]) :
         ocalls[p][k] = [op |-> "remove", idx |-> j, id |-> "d2", ok |-> TRUE, name |-> ""]
    /\ "d2" \notin runtime

\* C2 as stated: a container of this host without a uuid label is handled like
\* one with a stale label (inspected and, unless it is the agent, removed).
C2_AbsentLabelIsOrphan ==
  \A p \in Passes : PassDone(p) =>
    \A j \in 1..Len(osnap[p]) :
      (AssignedHere(osnap[p][j]) /\ LabelAbsent(osnap[p][j])) => InspectedAndRemoved(p, j)

\* C2 amended: a container of this host without a uuid label is passed over:
\* the pass issues neither an inspect nor a removal call for it.
C2_AbsentLabelSkipped ==
  \A p \in Passes : \A j \in 1..Len(osnap[p]) :
    (AssignedHere(osnap[p][j]) /\ LabelAbsent(osnap[p][j])) =>
      (CallsFor(p, "inspect", j) = <<>> /\ CallsFor(p, "remove", j) = <<>>)

\* a finished pass whose list held d2 without a label, and d2 is still there,
\* while a stale neighbour of the same list was inspected
C2_Witness ==
  \E p \in Passes : PassDone(p) /\ Len(osnap[p]) = 2 /\ Len(ocalls[p]) > 0 /\
    \E j \in 1..2 :
      /\ AssignedHere(osnap[p][j]) /\ LabelAbsent(osnap[p][j])
      /\ osnap[p][j].ExternalId = "d2"
      /\ "d2" \in runtime

\* C3: no removal call is ever issued for the container named
\* "/rancher-agent", and that container stays in the runtime, whatever the
\* labels and however the passes interleave.
C3_AgentNeverRemoved ==
  /\ \A p \in Passes : \A k \in 1..Len(ocalls[p]) :
       ocalls[p][k].op = "remove" => RuntimeName(ocalls[p][k].id) # "/rancher-agent"
  /\ \A id \in ExternalIds : RuntimeName(id) = "/rancher-agent" => id \in runtime

\* Scenario B: the agent's container d1 carries a stale label, was inspected
\* under its name, and the pass ended without removing it
C3_Witness ==
  \E p \in Passes : PassDone(p) /\ \E j \in 1..Len(osnap[p]) :
    /\ AssignedHere(osnap[p][j]) /\ LabelStale(osnap[p][j])
    /\ osnap[p][j].ExternalId = "d1"
    /\ \E k \in 1..Len(ocalls[p]) :
         ocalls[p][k] = [op |-> "inspect", idx |-> j, id |-> "d1", ok |-> TRUE,
                         name |-> "/rancher-agent"]
    /\ "d1" \in runtime

\* ========================================================================
\* Claims about the duplicate-service guard (SpecDedup, SpecBackoff)
\* ========================================================================
\* the current CheckMetadata pass has returned nil
CheckDone == dpc = "sleep" /\ ~derr

\* a listed container counts for a service: running, a non-empty uuid label,
\* and the service's name in its service-name label
CountsFor(c, service) ==
  /\ c.State = "running"
  /\ uuidLabel \in DOMAIN c.Labels /\ c.Labels[uuidLabel] # ""
  /\ serviceNameLabel \in DOMAIN c.Labels /\ c.Labels[serviceNameLabel] = service

MatchesOf(service) == {i \in 1..Len(dlist) : CountsFor(dlist[i], service)}

\* the stop calls of the pass that hit a container counting for the service
StopsOn(service) ==
  SelectSeq(dcalls, LAMBDA call : \E i \in MatchesOf(service) : dlist[i].ID = call.id)

Last(S) == CHOOSE i \in S : \A j \in S : j <= i

\* C4: a finished detection pass has issued, for each of the two services,
\* no stop call when at most one listed container counts for it, and
\* otherwise exactly one, on the last (oldest) counting element of the list.
C4_StopsOldestDuplicate ==
  CheckDone => \A service \in {metadataService, dnsService} :
    IF Cardinality(MatchesOf(service)) <= 1
    THEN StopsOn(service) = <<>>
    ELSE /\ Len(StopsOn(service)) = 1
         /\ StopsOn(service)[1].id = dlist[Last(MatchesOf(service))].ID

\* Scenario C: the list is [m3, m2, m1], all running metadata instances, and
\* the finished pass has stopped m1 and nothing else
C4_Witness ==
  /\ CheckDone
  /\ dlist = ScenarioC
  /\ dcalls = <<[id |-> 1, ok |-> TRUE]>>
  /\ containers[3].State = "exited"

\* C5: the sleep intervals start at 1 second, grow by the factor 1.5 from one
\* tick to the next (to the millisecond, the unit of the model) until the
\* product passes 5 minutes, never decrease, never exceed 5 minutes and stay
\* at 5 minutes once there; there is one interval per tick, whether the pass
\* before it failed or not.
C5_IntervalSequence ==
  /\ Len(sleeps) = attempt
  /\ Len(sleeps) >= 1 => sleeps[1] = 1000
  /\ \A i \in 1..Len(sleeps) : sleeps[i] <= 300000
  /\ \A i \in 1..(Len(sleeps) - 1) :
       /\ sleeps[i] <= sleeps[i + 1]
       /\ sleeps[i] = 300000 => sleeps[i + 1] = 300000
       /\ IF 3 * sleeps[i] >= 2 * 300000
          THEN sleeps[i + 1] = 300000
          ELSE 3 * sleeps[i] - 2 < 2 * sleeps[i + 1] /\ 2 * sleeps[i + 1] < 3 * sleeps[i] + 3

\* the interval has reached 5 minutes and stayed there, and the pass before
\* the last sleep had failed
C5_Witness ==
  /\ Len(sleeps) = 17
  /\ sleeps[2] = 1500 /\ sleeps[3] = 2250
  /\ sleeps[15] < 300000 /\ sleeps[16] = 300000 /\ sleeps[17] = 300000
  /\ derr

\* ========================================================================
\* Claims about the event bootstrap (SpecEvents)
\* ========================================================================
\* Process has returned nil
ProcessDone == epc = "done" /\ ~eerr

\* the synthetic events among a sequence of events, in order
Simulated(events) == SelectSeq(events, LAMBDA e : e.From = "-simulated-")

\* one synthetic start event per listed container, in list order
ExpectedReplay ==
  [i \in 1..Len(elisting) |->
     [ID |-> elisting[i].ID, Status |-> "start", From |-> "-simulated-"]]

\* C6: the synthetic events that have reached the router are, at any time, the
\* first ones of the expected replay (one start event with the marker per
\* listed container, no other id, no repetition); once Process has returned
\* nil they are all of them and stay so, whatever real events follow.
C6_OneSimulatedStartPerContainer ==
  LET sim == Simulated(Ingested) IN
  /\ Len(sim) <= Len(ExpectedReplay)
  /\ sim = SubSeq(ExpectedReplay, 1, Len(sim))
  /\ ProcessDone => sim = ExpectedReplay

\* Scenario D: the listing was [c2 (running), c1 (exited)], Process returned
\* nil, and a real event followed the two synthetic ones into the router
C6_Witness ==
  /\ ProcessDone
  /\ Len(elisting) = 2 /\ elisting[1].State = "running" /\ elisting[2].State = "exited"
  /\ Len(processed) = 3
  /\ processed[1].From = "-simulated-" /\ processed[2].From = "-simulated-"
  /\ processed[3].From # "-simulated-"

\* C7 as stated: while a synthetic event of the replay is still to be
\* emitted, the router has processed no real event.
C7_ReplayBeforeRealEvents ==
  (epc = "replay" /\ ei <= Len(elisting)) =>
    \A k \in 1..Len(processed) : processed[k].From = "-simulated-"

\* C7 amended: when Process has returned nil, a synthetic start event has been
\* emitted for every listed container; the router processes events, real ones
\* included, only once it has been started, which may be before the replay.
C7_ReplayBeforeReturn ==
  /\ ProcessDone =>
       \A i \in 1..Len(elisting) : \E k \in 1..Len(Ingested) :
         Ingested[k].ID = elisting[i].ID /\ Ingested[k].From = "-simulated-"
  /\ processed # <<>> => routerStarted

\* Process has returned nil after a replay, and the router had processed a
\* real event before the first synthetic one
C7_Witness ==
  /\ ProcessDone
  /\ Len(elisting) >= 1
  /\ Len(processed) >= 2
  /\ processed[1].From # "-simulated-"
  /\ processed[2].From = "-simulated-"

\* C8: the listing is taken, the replay loop runs and synthetic events are on
\* the listener channel only when the router has been started.
C8_ReplayAfterRouterStart ==
  (elisting # <<>> \/ epc = "replay" \/ Simulated(Ingested) # <<>>) => routerStarted

\* the replay loop is sending into the started router
C8_Witness ==
  /\ epc = "replay"
  /\ routerStarted
  /\ Simulated(listener) # <<>>
  /\ ei <= Len(elisting)

\* ========================================================================
\* Claims about failures in both reaper loops (SpecWatch)
\* ========================================================================
\* C9: a reconciler pass whose GetSelfHost or GetContainers failed has
\* returned the error without entering its loop and without any docker call;
\* a detection pass whose ContainerList failed has returned the error with
\* nothing to stop and without any stop call. The next notification, and the
\* next tick, start a new pass.
C9_FailedFetchAbortsPass ==
  /\ \A p \in Passes : opc[p] = "returned" =>
       /\ ohost[p].UUID = "" => oerr[p]
       /\ oerr[p] => (ocalls[p] = <<>> /\ oidx[p] = 0 /\ osnap[p] = <<>>)
       /\ oerr[p] /\ p = Notified => ENABLED GetSelfHost(p)
  /\ derr => (dpc \in {"sleep", "check"} /\ dcalls = <<>> /\ toStop = <<>> /\ dlist = <<>>)
  /\ (derr /\ dpc = "sleep" /\ attempt < MaxWatchTicks) => ENABLED Sleep(MaxWatchTicks)

\* a pass failed at GetContainers (the host was fetched) while the runtime
\* still holds every container, and a detection pass failed at its listing
\* although two services are duplicated
C9_Witness ==
  /\ \E p \in Passes :
       /\ opc[p] = "returned" /\ oerr[p] /\ ohost[p] = SelfHost
       /\ \E j \in 1..Len(metaContainers) : LabelStale(metaContainers[j])
  /\ runtime = ExternalIds
  /\ derr /\ dpc = "sleep" /\ containers = BothDuplicated

\* C10: a failing inspect, remove or stop concerns its own item only. In a
\* finished reconciler pass every stale container of this host has been
\* inspected exactly once, whatever happened to the others; one whose inspect
\* failed got no removal call, one inspected under a name other than the
\* agent's got exactly one, failed or not. In a finished detection pass every
\* chosen duplicate got exactly one stop call, in the order chosen, whether or
\* not an earlier stop failed.
C10_ItemFailureIsolated ==
  /\ \A p \in Passes : PassDone(p) =>
       \A j \in 1..Len(osnap[p]) :
         (AssignedHere(osnap[p][j]) /\ LabelStale(osnap[p][j])) =>
           LET ins == CallsFor(p, "inspect", j)
               rem == CallsFor(p, "remove", j) IN
           /\ Len(ins) = 1
           /\ ~ins[1].ok => rem = <<>>
           /\ (ins[1].ok /\ ins[1].name # "/rancher-agent") => Len(rem) = 1
  /\ CheckDone =>
       /\ Len(dcalls) =
            Cardinality({s \in {metadataService, dnsService} : Cardinality(MatchesOf(s)) > 1})
       /\ \A k \in 1..Len(dcalls) : dcalls[k].id = toStop[k]
       /\ \A k, l \in 1..Len(dcalls) : dcalls[k].id = dcalls[l].id => k = l

\* the first of two stale containers could not be inspected and the second was
\* inspected and removed; the first of two stops failed and the second was
\* issued and succeeded
C10_Witness ==
  /\ \E p \in Passes :
       /\ PassDone(p)
       /\ Len(osnap[p]) = 2
       /\ Len(ocalls[p]) = 3
       /\ ocalls[p][1].op = "inspect" /\ ocalls[p][1].idx = 1 /\ ~ocalls[p][1].ok
       /\ ocalls[p][2].op = "inspect" /\ ocalls[p][2].idx = 2 /\ ocalls[p][2].ok
       /\ ocalls[p][3].op = "remove" /\ ocalls[p][3].idx = 2 /\ ocalls[p][3].ok
  /\ CheckDone
  /\ dlist = BothDuplicated
  /\ dcalls = <<[id |-> 2, ok |-> FALSE], [id |-> 1, ok |-> TRUE]>>

\* C11: a failure of NewDockerClient or NewEventRouter ends Process with the
\* error and the router unstarted; a failure of ListContainers ends it with
\* the error and no synthetic event sent; Process has returned nil only with
\* the router started and the replay loop run to its end. A Process that has
\* returned takes no further step.
C11_StartupFailureSurfaces ==
  /\ [](/\ (epc = "done" /\ ~routerStarted) => eerr
        /\ (epc = "done" /\ eerr) =>
             (elisting = <<>> /\ ei = 1 /\ Simulated(Ingested) = <<>>)
        /\ ProcessDone => (routerStarted /\ ei = Len(elisting) + 1))
  /\ [][/\ (epc \in {"NewDockerClient", "NewEventRouter"} /\ eerr') =>
             (epc' = "done" /\ ~routerStarted')
        /\ (epc = "ListContainers" /\ eerr') => (epc' = "done" /\ listener' = listener)
        /\ epc = "done" => (epc' = "done" /\ eerr' = eerr /\ ei' = ei)]_vars

\* the listing failed after the router was started, with containers present:
\* Process has returned the error and nothing was replayed
C11_Witness ==
  /\ epc = "done" /\ eerr /\ routerStarted
  /\ population # <<>>
  /\ Simulated(Ingested) = <<>>

\* the runtime containers a single undisturbed pass removes: those an entry
\* of this host with a stale uuid label points at, the agent's excepted
RemovableIds ==
  {RemoveTarget(metaContainers[j]) : j \in
     {i \in 1..Len(metaContainers) :
        /\ AssignedHere(metaContainers[i]) /\ LabelStale(metaContainers[i])
        /\ RuntimeName(RemoveTarget(metaContainers[i])) # "/rancher-agent"}}

\* C12: with up to 5 passes interleaved in any way, only removable orphans
\* ever leave the runtime; a pass that has returned nil has inspected every
\* stale entry of this host exactly once, whatever the other passes did, and
\* each removable orphan is then gone unless a docker call of that pass for
\* it failed while it was there; a pass never writes another pass's state;
\* a removal attempted on a container already gone fails, changes nothing
\* and the pass goes on with the next element without an error.
C12_OverlappingPassesAgree ==
  /\ [](/\ ExternalIds \ runtime \subseteq RemovableIds
        /\ \A p \in DOMAIN opc : PassDone(p) =>
             /\ osnap[p] = metaContainers
             /\ \A j \in 1..Len(osnap[p]) :
                  (AssignedHere(osnap[p][j]) /\ LabelStale(osnap[p][j])) =>
                    /\ Len(CallsFor(p, "inspect", j)) = 1
                    /\ RemoveTarget(osnap[p][j]) \in RemovableIds =>
                         \/ RemoveTarget(osnap[p][j]) \notin runtime
                         \/ \E k \in 1..Len(ocalls[p]) :
                              /\ ocalls[p][k].idx = j
                              /\ ~ocalls[p][k].ok)
  /\ [][\A p \in DOMAIN opc :
          /\ (opc[p] = "remove" /\ opc'[p] # "remove"
                /\ RemoveTarget(osnap[p][oidx[p]]) \notin runtime) =>
               /\ runtime' = runtime
               /\ opc'[p] = "loop" /\ oidx'[p] = oidx[p] + 1 /\ ~oerr'[p]
          /\ \A q \in DOMAIN opc \ {p} :
               (opc'[p] # opc[p] \/ ocalls'[p] # ocalls[p] \/ oidx'[p] # oidx[p]) =>
                 (/\ opc'[q] = opc[q] /\ ocalls'[q] = ocalls[q] /\ oidx'[q] = oidx[q]
                  /\ osnap'[q] = osnap[q] /\ ohost'[q] = ohost[q] /\ oerr'[q] = oerr[q])]_vars

\* five passes have all returned nil over the orphan d2: one of them removed
\* it, another one's removal failed, a third one's inspect failed, and d2 is
\* gone all the same
C12_Witness ==
  /\ metaContainers = <<StaleHere("d2")>>
  /\ Cardinality(DOMAIN opc) = 5
  /\ \A p \in DOMAIN opc : PassDone(p)
  /\ runtime = {"d1"}
  /\ \E p, q, r \in DOMAIN opc :
       /\ ocalls[p] = <<[op |-> "inspect", idx |-> 1, id |-> "d2", ok |-> TRUE, name |-> "/web-1"],
                        [op |-> "remove", idx |-> 1, id |-> "d2", ok |-> TRUE, name |-> ""]>>
       /\ ocalls[q] = <<[op |-> "inspect", idx |-> 1, id |-> "d2", ok |-> TRUE, name |-> "/web-1"],
                        [op |-> "remove", idx |-> 1, id |-> "d2", ok |-> FALSE, name |-> ""]>>
       /\ ocalls[r] = <<[op |-> "inspect", idx |-> 1, id |-> "d2", ok |-> FALSE, name |-> ""]>>

\* C13: Process returns. With the router's workers receiving from the
\* listener channel and every send that can complete completing, each run
\* of the bootstrap reaches the return of Process, and a returned Process
\* stays returned.
C13_ProcessReturns ==
  /\ <>(epc = "done")
  /\ [](epc = "done" => [](epc = "done"))

\* Process has returned nil after replaying two containers while two events
\* of the daemon went through the same channel of capacity two
C13_Witness ==
  /\ ProcessDone
  /\ Len(Simulated(Ingested)) = 2
  /\ Len(Ingested) = 4
  /\ Len(processed) >= 2

\* C14: every inspect or remove call of a pass is for an element of its
\* list that is assigned to the self host and whose uuid label is not equal
\* to its UUID, and carries that element's ExternalId; so an element of
\* another host, or one whose label equals its UUID, gets no call, and a
\* runtime container that only such elements point at stays in the runtime.
C14_OthersUntouched ==
  /\ \A p \in Passes : \A k \in 1..Len(ocalls[p]) :
       LET call == ocalls[p][k] IN
       /\ call.idx \in 1..Len(osnap[p])
       /\ osnap[p][call.idx].HostUUID = SelfHost.UUID
       /\ Get(osnap[p][call.idx].Labels, uuidLabel) # osnap[p][call.idx].UUID
       /\ call.id = osnap[p][call.idx].ExternalId
  /\ \A id \in ExternalIds \ runtime :
       \E j \in 1..Len(metaContainers) :
         /\ metaContainers[j].ExternalId = id
         /\ metaContainers[j].HostUUID = SelfHost.UUID
         /\ Get(metaContainers[j].Labels, uuidLabel) # metaContainers[j].UUID

\* a finished pass over a stale entry of another host and an entry of this
\* host whose label equals its UUID, both pointing at d2: no docker call was
\* made and d2 is still there
C14_Witness ==
  \E p \in Passes :
    /\ PassDone(p)
    /\ Len(osnap[p]) = 2
    /\ osnap[p][1].HostUUID = "h2" /\ LabelStale(osnap[p][1])
    /\ osnap[p][2].HostUUID = "h1" /\ Get(osnap[p][2].Labels, uuidLabel) = osnap[p][2].UUID
    /\ osnap[p][1].ExternalId = "d2" /\ osnap[p][2].ExternalId = "d2"
    /\ ocalls[p] = <<>>
    /\ "d2" \in runtime

\* a listed container is running, carries a non-empty uuid label and has the
\* name of the metadata service or of the DNS service
Eligible(c) ==
  /\ c.State = "running"
  /\ uuidLabel \in DOMAIN c.Labels /\ c.Labels[uuidLabel] # ""
  /\ serviceNameLabel \in DOMAIN c.Labels
  /\ c.Labels[serviceNameLabel] \in {"network-services/metadata", "network-services/metadata/dns"}

\* the elements of the pass's listing that are eligible for the service
EligibleFor(service) ==
  {i \in 1..Len(dlist) : Eligible(dlist[i]) /\ dlist[i].Labels[serviceNameLabel] = service}

\* C15: every container a pass picks for stopping, and every container it
\* calls ContainerStop on, is an element of that pass's listing that was
\* running, had a non-empty uuid label and had one of the two well-known
\* service names; and the pass picks a container of a service only when at
\* least two elements of the listing are eligible for that service, however
\* many ineligible ones carry the service's name.
C15_OnlyEligibleStopped ==
  LET picked == {toStop[k] : k \in 1..Len(toStop)} \cup {dcalls[k].id : k \in 1..Len(dcalls)} IN
  \A id \in picked :
    \E i \in 1..Len(dlist) :
      /\ dlist[i].ID = id
      /\ Eligible(dlist[i])
      /\ Cardinality(EligibleFor(dlist[i].Labels[serviceNameLabel])) >= 2

\* the listing holds two running metadata instances followed by an older one
\* that has exited: the finished pass stopped the older of the two running
\* ones and left the exited one alone
C15_Witness ==
  /\ CheckDone
  /\ Len(dlist) = 3
  /\ \A i \in 1..3 : Get(dlist[i].Labels, serviceNameLabel) = "network-services/metadata"
                     /\ Get(dlist[i].Labels, uuidLabel) = "u1"
  /\ dlist[1].State = "running" /\ dlist[2].State = "running" /\ dlist[3].State = "exited"
  /\ dcalls = <<[id |-> dlist[2].ID, ok |-> TRUE]>>

\* C16: the loop never ends. Every pass, whether it returned an error, had a
\* stop call fail or did neither, is followed by the sleep and the sleep by
\* the next pass, so passes begin again and again for ever; within one pass
\* no container is handed to ContainerStop twice; and the pass after one with
\* a failed stop, when its listing succeeds, picks that container again.
C16_LoopRunsForever ==
  /\ []<>(dpc = "check") /\ []<>(dpc = "sleep")
  /\ (dpc = "stop") ~> (dpc = "sleep")
  /\ (dpc = "sleep" /\ derr) ~> (dpc = "check")
  /\ [](\A k1, k2 \in 1..Len(dcalls) : dcalls[k1].id = dcalls[k2].id => k1 = k2)
  /\ [][(dpc = "check" /\ ~derr') =>
          \A k \in 1..Len(dcalls) : ~dcalls[k].ok =>
            \E n \in 1..Len(toStop') : toStop'[n] = dcalls[k].id]_vars

\* the interval has long settled at its maximum; the last pass had a stop
\* call fail, the loop has slept and the next pass is due
C16_Witness ==
  /\ dpc = "check"
  /\ attempt >= 17
  /\ sleeps[attempt] = 300000
  /\ \E k \in 1..Len(dcalls) : ~dcalls[k].ok

\* the instances of a service the daemon holds, and those of them running
InstancesOf(service) ==
  {i \in 1..Len(containers) : Get(containers[i].Labels, serviceNameLabel) = service}
RunningOf(service) ==
  {i \in InstancesOf(service) : containers[i].State = "running"}

\* the passes begun so far, while the ticks are still counted
PassesBegun == attempt + (IF dpc \in {"stop", "sleep"} THEN 1 ELSE 0)

\* the list and stop calls of the current pass have all succeeded
CallsSucceed == ~derr /\ \A k \in 1..Len(dcalls) : dcalls[k].ok

AtLeast(a, b) == IF a >= b THEN a ELSE b

\* of k instances of the service running at the start, one is left for good
Converges(service) ==
  <>[](Cardinality(RunningOf(service)) = (IF InstancesOf(service) = {} THEN 0 ELSE 1))

\* C17: with k instances of a well-known service running at the start and
\* no other one started, (a) after n passes at least k - n of them, and
\* always at least one, still run; (b) if from some point on every list and
\* stop call succeeds, the loop reaches a state with exactly one running
\* instance of the service and stays there; (c) if every call succeeds from
\* the start, the pass number n leaves max(1, k - n) instances running, so
\* one instance is reached by pass k - 1 and by no earlier pass.
C17_SingletonConvergence ==
  /\ [](\A service \in {metadataService, dnsService} :
          /\ InstancesOf(service) # {} => RunningOf(service) # {}
          /\ attempt < MaxBackoffTicks =>
               Cardinality(RunningOf(service)) >=
                 Cardinality(InstancesOf(service)) - PassesBegun)
  /\ (<>[]CallsSucceed) => (Converges(metadataService) /\ Converges(dnsService))
  /\ ([]CallsSucceed) =>
       [](\A service \in {metadataService, dnsService} :
            (dpc = "sleep" /\ attempt < MaxBackoffTicks /\ InstancesOf(service) # {}) =>
              Cardinality(RunningOf(service)) =
                AtLeast(1, Cardinality(InstancesOf(service)) - PassesBegun))

\* three instances of the metadata service were running; the second pass
\* has just ended and one of them is left, the newest
C17_Witness ==
  /\ Cardinality(InstancesOf(metadataService)) = 3
  /\ dpc = "sleep" /\ attempt = 1 /\ CallsSucceed
  /\ RunningOf(metadataService) = {CHOOSE i \in InstancesOf(metadataService) :
                                     \A j \in InstancesOf(metadataService) : i <= j}

\* a start event for the container id has reached the router's ingestion
\* point, from the given origin
StartIngested(id, from) ==
  \E k \in 1..Len(Ingested) :
    /\ Ingested[k].ID = id /\ Ingested[k].Status = "start"
    /\ Ingested[k].From = from

ListedAt(id) == {j \in 1..Len(elisting) : elisting[j].ID = id}

\* C18: once the listing is taken (the router listening since before it),
\* every container of the daemon is either in the listing, and then has its
\* synthetic start event at the ingestion point as soon as the replay loop
\* has passed it, or is not in the listing, and then has a real start event
\* there already; when Process has returned nil every container has at
\* least one start event there, whatever events the daemon interleaved.
C18_NoContainerMissed ==
  (epc \in {"replay", "done"} /\ ~eerr) =>
    \A i \in 1..Len(population) :
      LET id == population[i].ID IN
      /\ ListedAt(id) = {} => StartIngested(id, "image")
      /\ \A j \in ListedAt(id) : j < ei => StartIngested(id, "-simulated-")
      /\ epc = "done" => (StartIngested(id, "image") \/ StartIngested(id, "-simulated-"))

\* Process has returned nil; one container started after the router and
\* before the listing and has both a real and a synthetic start event,
\* another started after the listing and has its real start event only
C18_Witness ==
  /\ ProcessDone
  /\ \E i, j \in 1..Len(population) :
       /\ ListedAt(population[i].ID) # {}
       /\ StartIngested(population[i].ID, "image")
       /\ StartIngested(population[i].ID, "-simulated-")
       /\ ListedAt(population[j].ID) = {}
       /\ StartIngested(population[j].ID, "image")
       /\ ~StartIngested(population[j].ID, "-simulated-")

\* the newest element of the listing that counts for the service: the first
Newest(service) == CHOOSE i \in MatchesOf(service) : \A j \in MatchesOf(service) : i <= j

\* C19: a pass picks and stops at most two containers in all, at most one
\* of each service, and the number for one service does not depend on the
\* other; no stop call is on the newest counting element of a service, which
\* is therefore still running in the daemon, so of the instances of a
\* service the pass saw running at least one is left.
C19_AtMostOnePerService ==
  /\ Len(toStop) <= 2 /\ Len(dcalls) <= Len(toStop)
  /\ \A service \in {metadataService, dnsService} :
       /\ Len(StopsOn(service)) <= 1
       /\ Len(SelectSeq(toStop, LAMBDA id :
              \E i \in MatchesOf(service) : dlist[i].ID = id))
            = (IF Cardinality(MatchesOf(service)) > 1 THEN 1 ELSE 0)
       /\ MatchesOf(service) # {} =>
            /\ \A k \in 1..Len(dcalls) : dcalls[k].id # dlist[Newest(service)].ID
            /\ \E i \in 1..Len(containers) :
                 /\ containers[i].ID = dlist[Newest(service)].ID
                 /\ containers[i].State = "running"

\* both services are duplicated in the listing [m, d, m, d]: the finished
\* pass has made its two stop calls, on the older instance of each, and the
\* two newer ones are still running
C19_Witness ==
  /\ CheckDone
  /\ dlist = BothDuplicated
  /\ dcalls = <<[id |-> 2, ok |-> TRUE], [id |-> 1, ok |-> TRUE]>>
  /\ containers[1].State = "running" /\ containers[2].State = "running"
  /\ containers[3].State = "exited" /\ containers[4].State = "exited"

====
